---- MODULE Spec2Model ----
(***************************************************************************)
(* Model of the SAN load-redistribution simulator:                         *)
(*   load_redistribution.py  the two proportional redistribution functions *)
(*   mitigation_schemes.py   MitigationScheme (threshold, source choice)   *)
(*   simulation.py           Simulation.run_scheme_and_print               *)
(*   reliability_bdd.py      system_reliability (fault-tree evaluator)     *)
(*   aftm_model.py           lambda_L, reliability_R (failure model)       *)
(*                                                                         *)
(* Loads are Python floats in the program.  The model computes with exact  *)
(* rationals <<numerator, denominator>> in lowest terms, so equalities are *)
(* those of real arithmetic.                                               *)
(***************************************************************************)
EXTENDS Integers, Sequences, FiniteSets, TLC

VARIABLES
    \* -- one call of a redistribution function (load_redistribution.py)
    loads,            \* the caller's loads dict / the driver's local `loads`
    degrees,          \* degrees dict
    sources,          \* list of source names
    neighbors_map,    \* <<>> for None, <<map>> for a dict node -> list
    beta,             \* exponent of the degree weighting
    sw2_threshold,    \* <<>> for None, <<T>> for a threshold
    call,             \* "none" | "full" | "paper": which function returned
    new_loads,        \* the returned snapshot
    \* -- MitigationScheme
    scheme_id,
    initial_threshold,
    s,
    top_k,
    dynamic_threshold,
    n_apply,          \* number of apply_after_trigger calls made so far
    sel,              \* arguments and result of select_sources, if it was the last call
    thr_ret,          \* <<value returned by threshold()>> if it was the last call, else <<>>
    \* -- Simulation.run_scheme_and_print
    pc,               \* position of the driver
    t,
    t_prev,
    mission_time,
    redis_count,
    current_threshold,
    records,
    self_alpha,       \* Simulation.alpha (a whole exponent)
    result,           \* <<>> while the run goes on, then what the caller got
    \* -- one call of system_reliability (reliability_bdd.py)
    switch_reliabilities,   \* the argument: component -> reliability
    R_sys,            \* <<>> before the call, then the outcome of the call
    \* -- one call of reliability_R (aftm_model.py)
    aftm_args,        \* the arguments [t, L, base_lambda, alpha]
    aftm_ret,         \* <<>> before the call, then the outcome of the call
    \* -- SANTopology objects (san_topology.py)
    heap,             \* the dict objects: heap[r] is the content of object r
    topos,            \* the topologies: each names the objects of its attributes
    topo_op,          \* the last operation made on a topology
    \* -- NetworkSimulator, the GUI controller (network_simulator.py)
    components,       \* switch id -> [current_load, exponent of its reliability]
    connections,      \* switch id -> list of the switches it is connected to
    load_threshold,
    dynamic_threshold_reduction,
    ctl_top_k,        \* self.top_k
    load_distribution_strategy,
    simulation_paused,
    ctl_step,         \* the last run_simulation_step: what it did to load_threshold
    \* -- main (main.py)
    runs              \* what the calls of run_scheme_and_print made so far returned

redisVars  == <<degrees, sources, neighbors_map, beta, sw2_threshold, call, new_loads>>
schemeVars == <<scheme_id, initial_threshold, s, top_k, dynamic_threshold, n_apply,
                sel, thr_ret>>
driverVars == <<pc, t, t_prev, mission_time, redis_count, current_threshold, records,
                self_alpha, result>>
evalVars   == <<switch_reliabilities, R_sys, aftm_args, aftm_ret>>
topoVars   == <<heap, topos, topo_op>>
ctlVars    == <<components, connections, load_threshold, dynamic_threshold_reduction,
                ctl_top_k, load_distribution_strategy, simulation_paused, ctl_step>>
mainVars   == <<runs>>
objVars    == <<topoVars, ctlVars, mainVars>>
vars == <<loads, redisVars, schemeVars, driverVars, evalVars, objVars>>

(***************************************************************************)
(* Exact rational arithmetic standing for Python's float arithmetic.       *)
(***************************************************************************)
RECURSIVE GCD(_, _)
GCD(a, b) == IF b = 0 THEN a ELSE GCD(b, a % b)

Abs(x) == IF x < 0 THEN -x ELSE x

\* n/d in lowest terms with a positive denominator (d # 0)
Rat(n, d) ==
    LET g  == GCD(Abs(n), Abs(d))
        sg == IF d < 0 THEN -1 ELSE 1
    IN  <<sg * (n \div g), sg * (d \div g)>>

Zero == <<0, 1>>

RAdd(a, b) ==
    LET g == GCD(a[2], b[2])
        l == (a[2] \div g) * b[2]
    IN  Rat(a[1] * (l \div a[2]) + b[1] * (l \div b[2]), l)

RNeg(a) == <<-a[1], a[2]>>

RSub(a, b) == RAdd(a, RNeg(b))

RMul(a, b) ==
    LET g1 == GCD(Abs(a[1]), b[2])
        g2 == GCD(Abs(b[1]), a[2])
    IN  Rat((a[1] \div g1) * (b[1] \div g2), (a[2] \div g2) * (b[2] \div g1))

RLe(a, b) == a[1] * b[2] <= b[1] * a[2]

RLt(a, b) == a[1] * b[2] < b[1] * a[2]

RMax(a, b) == IF RLe(a, b) THEN b ELSE a

\* float(v) of an integer v
Float(v) == <<v, 1>>

RECURSIVE Pow(_, _)
\* d ** b for integers d, b >= 0 (Python: 0 ** 0 = 1)
Pow(d, b) == IF b = 0 THEN 1 ELSE d * Pow(d, b - 1)

\* sum(m.values()) of a dict of rationals
RECURSIVE SumOver(_, _)
SumOver(m, keys) ==
    IF keys = {} THEN Zero
    ELSE LET k == CHOOSE x \in keys : TRUE
         IN  RAdd(m[k], SumOver(m, keys \ {k}))

Total(m) == SumOver(m, DOMAIN m)

(***************************************************************************)
(* load_redistribution.py                                                  *)
(***************************************************************************)
\* dict.get(key, default)
Get(d, key, default) == IF key \in DOMAIN d THEN d[key] ELSE default

\* list(dict.fromkeys(sq)): the first occurrence of each element, in order
RECURSIVE Dedup(_)
Dedup(sq) ==
    IF sq = <<>> THEN <<>>
    ELSE LET front == Dedup(SubSeq(sq, 1, Len(sq) - 1))
             last  == sq[Len(sq)]
         IN  IF \E i \in DOMAIN front : front[i] = last THEN front
             ELSE Append(front, last)

\* Nk: k itself, then its listed neighbours, without repetition
Nk(k, nmap) ==
    LET neigh == IF nmap = <<>> THEN <<>> ELSE Get(nmap[1], k, <<>>)
    IN  Dedup(<<k>> \o neigh)

\* denom = sum over Nk of degree(m) ** beta
RECURSIVE DenomIgnoringBeta(_, _, _)
DenomIgnoringBeta(nk, degs, b) ==
    IF nk = <<>> THEN 0
    ELSE Get(degs, nk[1], 0) + DenomIgnoringBeta(Tail(nk), degs, b)

RECURSIVE Denom(_, _, _)
Denom(nk, degs, b) ==
    IF nk = <<>> THEN 0
    ELSE Pow(Get(degs, nk[1], 0), b) + Denom(Tail(nk), degs, b)

\* the share of `amount` credited to receiver j of the closure nk
ShareMissingSelf(j, nk, degs, b, amount) ==
    IF j = nk[1] THEN Zero
    ELSE LET denom == Denom(nk, degs, b)
         IN  IF denom <= 0 THEN RMul(amount, Rat(1, Len(nk)))
             ELSE RMul(amount, Rat(Pow(Get(degs, j, 0), b), denom))

Share(j, nk, degs, b, amount) ==
    LET denom == Denom(nk, degs, b)
    IN  IF denom <= 0 THEN RMul(amount, Rat(1, Len(nk)))
        ELSE RMul(amount, Rat(Pow(Get(degs, j, 0), b), denom))

\* delta_total[j] = delta_total.get(j, 0.0) + x
CreditOverwriting(delta, j, x) ==
    IF j \in DOMAIN delta THEN [delta EXCEPT ![j] = x]
    ELSE delta @@ (j :> x)

Credit(delta, j, x) ==
    IF j \in DOMAIN delta THEN [delta EXCEPT ![j] = RAdd(@, x)]
    ELSE delta @@ (j :> RAdd(Zero, x))

\* for j in Nk: delta_total[j] += share of j
RECURSIVE CreditClosure(_, _, _, _, _, _)
CreditClosure(delta, i, nk, degs, b, amount) ==
    IF i > Len(nk) THEN delta
    ELSE CreditClosure(Credit(delta, nk[i], Share(nk[i], nk, degs, b, amount)),
                       i + 1, nk, degs, b, amount)

\* Lk read for source k while the deltas are accumulated: from the snapshot
SnapshotLoadRunning(L_before, delta, k) == RAdd(L_before[k], Get(delta, k, Zero))

SnapshotLoad(L_before, delta, k) == L_before[k]

\* amount_k of proportional_redistribute_sources_per_paper
AmountAnySource(k, Lk, thr) ==
    IF thr # <<>> THEN RMax(Zero, RSub(Lk, Float(thr[1])))
    ELSE Lk

Amount(k, Lk, thr) ==
    IF k = "Sw2" /\ thr # <<>> THEN RMax(Zero, RSub(Lk, Float(thr[1])))
    ELSE Lk

\* first loop of proportional_redistribute_sources_full
RECURSIVE FullDeltas(_, _, _, _, _, _, _)
FullDeltas(delta, i, L_before, degs, srcs, nmap, b) ==
    IF i > Len(srcs) THEN delta
    ELSE LET k == srcs[i]
         IN  IF k \notin DOMAIN L_before
             THEN FullDeltas(delta, i + 1, L_before, degs, srcs, nmap, b)
             ELSE LET Lk == SnapshotLoad(L_before, delta, k)
                  IN  IF RLe(Lk, Zero)
                      THEN FullDeltas(delta, i + 1, L_before, degs, srcs, nmap, b)
                      ELSE FullDeltas(CreditClosure(delta, 1, Nk(k, nmap), degs, b, Lk),
                                      i + 1, L_before, degs, srcs, nmap, b)

\* second loop: new_loads[k] -= L_before[k] for every listed source present
RECURSIVE FullRemove(_, _, _, _)
FullRemove(nl, i, L_before, srcs) ==
    IF i > Len(srcs) THEN nl
    ELSE LET k == srcs[i]
         IN  IF k \in DOMAIN nl
             THEN FullRemove([nl EXCEPT ![k] = RSub(@, Get(L_before, k, Zero))],
                             i + 1, L_before, srcs)
             ELSE FullRemove(nl, i + 1, L_before, srcs)

\* last loop: new_loads[j] = new_loads.get(j, 0.0) + d for (j, d) of delta_total
ApplyDeltasSubtracting(nl, delta) ==
    [j \in DOMAIN nl \cup DOMAIN delta |->
        IF j \in DOMAIN delta THEN RSub(Get(nl, j, Zero), delta[j]) ELSE nl[j]]

ApplyDeltas(nl, delta) ==
    [j \in DOMAIN nl \cup DOMAIN delta |->
        IF j \in DOMAIN delta THEN RAdd(Get(nl, j, Zero), delta[j]) ELSE nl[j]]

proportional_redistribute_sources_full(lds, degs, srcs, nmap, b) ==
    LET L_before    == lds
        delta_total == FullDeltas([n \in DOMAIN lds |-> Zero], 1, L_before, degs,
                                  srcs, nmap, b)
        removed     == FullRemove(L_before, 1, L_before, srcs)
    IN  ApplyDeltas(removed, delta_total)

\* first loop of proportional_redistribute_sources_per_paper
RECURSIVE PaperDeltas(_, _, _, _, _, _, _, _)
PaperDeltas(delta, i, L_before, degs, srcs, nmap, b, thr) ==
    IF i > Len(srcs) THEN delta
    ELSE LET k == srcs[i]
         IN  IF k \notin DOMAIN L_before
             THEN PaperDeltas(delta, i + 1, L_before, degs, srcs, nmap, b, thr)
             ELSE LET Lk       == SnapshotLoad(L_before, delta, k)
                      amount_k == Amount(k, Lk, thr)
                  IN  IF RLe(Lk, Zero) \/ RLe(amount_k, Zero)
                      THEN PaperDeltas(delta, i + 1, L_before, degs, srcs, nmap, b, thr)
                      ELSE PaperDeltas(
                               CreditClosure(delta, 1, Nk(k, nmap), degs, b, amount_k),
                               i + 1, L_before, degs, srcs, nmap, b, thr)

\* second loop: new_loads[k] -= amount_k for every listed source present
RECURSIVE PaperRemove(_, _, _, _, _)
PaperRemove(nl, i, L_before, srcs, thr) ==
    IF i > Len(srcs) THEN nl
    ELSE LET k == srcs[i]
         IN  IF k \notin DOMAIN L_before
             THEN PaperRemove(nl, i + 1, L_before, srcs, thr)
             ELSE PaperRemove(
                      [nl EXCEPT ![k] = RSub(@, Amount(k, L_before[k], thr))],
                      i + 1, L_before, srcs, thr)

proportional_redistribute_sources_per_paper(lds, degs, srcs, nmap, b, thr) ==
    LET L_before    == lds
        delta_total == PaperDeltas([n \in DOMAIN lds |-> Zero], 1, L_before, degs,
                                   srcs, nmap, b, thr)
        removed     == PaperRemove(L_before, 1, L_before, srcs, thr)
    IN  ApplyDeltas(removed, delta_total)

(***************************************************************************)
(* mitigation_schemes.py: MitigationScheme                                 *)
(***************************************************************************)
\* self.predefined_phi: scheme id -> one source list per redistribution index
predefined_phi ==
    [id \in 1..4 |->
        IF id \in {1, 3}
        THEN << <<"Sw1", "Sw2", "Sw3">>, <<"Sw2", "Sw3", "Sw5">>, <<"Sw2", "Sw3", "Sw4">> >>
        ELSE << <<"Sw2", "Sw1", "Sw5">>, <<"Sw2", "Sw3", "Sw5">>, <<"Sw2", "Sw3", "Sw4">> >>]

is_dynamic(id) == id \in {3, 4}

Max(a, b) == IF a >= b THEN a ELSE b

Min(a, b) == IF a <= b THEN a ELSE b

\* the value of dynamic_threshold after apply_after_trigger()
apply_after_trigger_adds(id, thr, step) ==
    IF is_dynamic(id) THEN Max(0, thr + step) ELSE thr

apply_after_trigger_unclamped(id, thr, step) ==
    IF is_dynamic(id) THEN thr - step ELSE thr

apply_after_trigger_always(id, thr, step) == Max(0, thr - step)

apply_after_trigger(id, thr, step) ==
    IF is_dynamic(id) THEN Max(0, thr - step) ELSE thr

InList(x, sq) == \E i \in DOMAIN sq : sq[i] = x

\* the set of elements of a list
Range(sq) == { sq[i] : i \in DOMAIN sq }

\* [x for x in sq if cond(x)], keep being the set of the x with cond(x)
Filter(sq, keep) == SelectSeq(sq, LAMBDA x : x \in keep)

\* sq[:k] for k >= 0
Prefix(sq, k) == SubSeq(sq, 1, Min(k, Len(sq)))

\* sorted(cand, key=...): stable; with reverse=True descending, still stable.
\* key is the function from each candidate to its sort key.
RECURSIVE InsertSorted(_, _, _, _)
InsertSorted(sorted, x, key, reverse) ==
    IF sorted = <<>> THEN <<x>>
    ELSE LET h == Head(sorted)
             stays == IF reverse THEN RLe(key[x], key[h]) ELSE RLe(key[h], key[x])
         IN  IF stays THEN <<h>> \o InsertSorted(Tail(sorted), x, key, reverse)
             ELSE <<x>> \o sorted

RECURSIVE Sorted(_, _, _)
Sorted(cand, key, reverse) ==
    IF cand = <<>> THEN <<>>
    ELSE InsertSorted(Sorted(SubSeq(cand, 1, Len(cand) - 1), key, reverse),
                      cand[Len(cand)], key, reverse)

\* the table entry used for redis_index (1-based, clamped into the table)
PhiEntry(phi_list, redis_index) ==
    LET idx0 == redis_index - 1
        idx1 == IF idx0 < 0 THEN 0 ELSE idx0
        idx  == IF idx1 >= Len(phi_list) THEN Len(phi_list) - 1 ELSE idx1
    IN  phi_list[idx + 1]

select_sources_keeps_overloaded(id, top, lds, reli, overloaded_switch, all_switches, redis_index) ==
    LET entry == PhiEntry(predefined_phi[id], redis_index)
    IN  Prefix(Filter(entry, { x \in Range(entry) : InList(x, all_switches) }), top)

select_sources(id, top, lds, reli, overloaded_switch, all_switches, redis_index) ==
    IF id \in DOMAIN predefined_phi
    THEN LET entry == PhiEntry(predefined_phi[id], redis_index)
             keep  == { x \in Range(entry) :
                          InList(x, all_switches) /\ x # overloaded_switch }
         IN  Prefix(Filter(entry, keep), top)
    ELSE LET candidates == Filter(all_switches, Range(all_switches) \ {overloaded_switch})
             by_reli == [x \in Range(candidates) |-> Get(reli, x, <<1, 1>>)]
             by_load == [x \in Range(candidates) |-> Get(lds, x, Zero)]
         IN  IF candidates = <<>> THEN <<>>
             ELSE IF id \in {1, 3} THEN Prefix(Sorted(candidates, by_reli, FALSE), top)
             ELSE Prefix(Sorted(candidates, by_load, TRUE), top)

(***************************************************************************)
(* Inputs of one redistribution call.                                      *)
(***************************************************************************)
MaxLoad    == 2      \* loads of the snapshot range over 0..MaxLoad
MaxSources == 2      \* source lists have at most MaxSources entries

LoadNodes == {"Sw1", "Sw2", "Sw3"}          \* keys of the snapshot
SourceNodes == {"Sw1", "Sw2", "Sw9"}        \* "Sw9" is unknown to the snapshot

\* degree map and neighbour map of the example in load_redistribution.py
ExampleDegrees == [n \in LoadNodes |-> IF n = "Sw2" THEN 4 ELSE 3]
ExampleNeighbors ==
    [n \in LoadNodes |-> IF n = "Sw2" THEN <<"Sw1", "Sw3">> ELSE <<"Sw2">>]

\* a partial topology: zero and missing degrees, a repeated neighbour, a
\* neighbour naming its own source and a neighbour unknown to the snapshot
PartialDegrees == [n \in {"Sw2", "Sw3", "Sw9"} |-> IF n = "Sw2" THEN 2 ELSE 1]
PartialNeighbors ==
    [n \in {"Sw1", "Sw2", "Sw9"} |->
        IF n = "Sw1" THEN <<"Sw1", "Sw9", "Sw9">>
        ELSE IF n = "Sw2" THEN <<"Sw3">> ELSE <<"Sw1">>]

Topologies ==
    { <<ExampleDegrees, <<ExampleNeighbors>>>>,
      <<[n \in LoadNodes |-> 0], <<ExampleNeighbors>>>>,
      <<PartialDegrees, <<PartialNeighbors>>>>,
      <<ExampleDegrees, <<>>>> }

Betas == {1, 2}

SourceLists == UNION { [1..n -> SourceNodes] : n \in 0..MaxSources }

\* no threshold, a threshold every positive load exceeds, a threshold of one
Thresholds == {<<>>, <<0>>, <<1>>}

\* loads of the __main__ example
ExampleLoads ==
    [n \in LoadNodes |-> Float(IF n = "Sw1" THEN 10 ELSE IF n = "Sw2" THEN 60 ELSE 5)]

\* "Sw3" is never a source here, only a receiver: its load is 0 or 1
SnapshotSet ==
    { [n \in LoadNodes |-> Float(IF n = "Sw1" THEN a ELSE IF n = "Sw2" THEN b ELSE c)] :
        a \in 0..MaxLoad, b \in 0..MaxLoad, c \in {0, 1} }
    \cup { ExampleLoads }

schemeIdle ==
    /\ scheme_id = 0 /\ initial_threshold = 0 /\ s = 0 /\ top_k = 0
    /\ dynamic_threshold = 0 /\ n_apply = 0 /\ sel = <<>> /\ thr_ret = <<>>

driverIdle ==
    /\ pc = "idle" /\ t = 0 /\ t_prev = 0 /\ mission_time = 0 /\ redis_count = 0
    /\ current_threshold = 0 /\ records = <<>> /\ self_alpha = 1 /\ result = <<>>

evalIdle ==
    /\ switch_reliabilities = <<>> /\ R_sys = <<>> /\ aftm_args = <<>> /\ aftm_ret = <<>>

topoIdle ==
    /\ heap = <<>> /\ topos = <<>> /\ topo_op = <<>>

ctlIdle ==
    /\ components = <<>> /\ connections = <<>> /\ load_threshold = 0
    /\ dynamic_threshold_reduction = 0 /\ ctl_top_k = 0
    /\ load_distribution_strategy = "" /\ simulation_paused = FALSE /\ ctl_step = <<>>

mainIdle == runs = <<>>

objIdle == topoIdle /\ ctlIdle /\ mainIdle

redisIdle ==
    /\ degrees = <<>> /\ sources = <<>> /\ neighbors_map = <<>> /\ beta = 1
    /\ sw2_threshold = <<>> /\ call = "none" /\ new_loads = <<>>

InitRedis ==
    /\ loads \in SnapshotSet
    /\ \E topo \in Topologies : degrees = topo[1] /\ neighbors_map = topo[2]
    /\ sources \in SourceLists
    /\ beta = 1
    /\ sw2_threshold = <<>>
    /\ call = "none"
    /\ new_loads = <<>>
    /\ schemeIdle
    /\ driverIdle
    /\ evalIdle
    /\ objIdle

\* The caller's loads dict after a call that was given lds and returned nl.
\* Both functions build L_before and new_loads as new dicts and write to these
\* only, so the caller's dict is as it was.
CallerLoadsAliased(lds, nl) == nl

CallerLoads(lds, nl) == lds

\* new = proportional_redistribute_sources_full(loads, degrees, sources, neighbors_map, beta)
CallFull ==
    /\ pc = "idle" /\ call = "none"
    /\ \E b \in Betas :
        /\ beta' = b
        /\ new_loads' = proportional_redistribute_sources_full(
                            loads, degrees, sources, neighbors_map, b)
    /\ loads' = CallerLoads(loads, new_loads')
    /\ sw2_threshold' = <<>>
    /\ call' = "full"
    /\ UNCHANGED <<degrees, sources, neighbors_map, schemeVars, driverVars>>
    /\ UNCHANGED <<evalVars, objVars>>

\* new = proportional_redistribute_sources_per_paper(loads, degrees, sources,
\*                                                   neighbors_map, beta, sw2_threshold)
CallPaper ==
    /\ pc = "idle" /\ call = "none"
    /\ \E b \in Betas, thr \in Thresholds :
        /\ beta' = b
        /\ sw2_threshold' = thr
        /\ new_loads' = proportional_redistribute_sources_per_paper(
                            loads, degrees, sources, neighbors_map, b, thr)
    /\ loads' = CallerLoads(loads, new_loads')
    /\ call' = "paper"
    /\ UNCHANGED <<degrees, sources, neighbors_map, schemeVars, driverVars>>
    /\ UNCHANGED <<evalVars, objVars>>

NextRedis == CallFull \/ CallPaper

SpecRedis == InitRedis /\ [][NextRedis]_vars

\* the function that produced new_loads, applied to another source list
Recall(srcs) ==
    IF call = "full"
    THEN proportional_redistribute_sources_full(loads, degrees, srcs, neighbors_map, beta)
    ELSE proportional_redistribute_sources_per_paper(loads, degrees, srcs, neighbors_map,
                                                     beta, sw2_threshold)

\* the closure of k as a set
NkSet(k) == { Nk(k, neighbors_map)[i] : i \in DOMAIN Nk(k, neighbors_map) }

InSources(k) == \E i \in DOMAIN sources : sources[i] = k

\* C1: the snapshot returned by proportional_redistribute_sources_full has the
\* same total load, summed over all its keys, as the input snapshot.
C1_FullConservation ==
    call = "full" => Total(new_loads) = Total(loads)

\* a full-mode call that moved load between two nodes
C1_Witness ==
    /\ call = "full"
    /\ new_loads # loads
    /\ \E k \in LoadNodes : InSources(k) /\ loads[k][1] > 0 /\ Cardinality(NkSet(k)) > 1

\* C2 as stated: when "Sw2" is a source of the per-paper function with an active
\* threshold T below its pre-round load, its returned load is exactly T and the
\* total load is unchanged.
C2_ExcessLeavesThreshold ==
    (/\ call = "paper"
     /\ sw2_threshold # <<>>
     /\ InSources("Sw2")
     /\ RLt(Float(sw2_threshold[1]), loads["Sw2"]))
    => /\ new_loads["Sw2"] = Float(sw2_threshold[1])
       /\ Total(new_loads) = Total(loads)

\* C3: redistributing the sources in one call gives the same snapshot for every
\* processing order of the source list.
C3_OrderIndependence ==
    call # "none" =>
        \A p \in Permutations(DOMAIN sources) :
            Recall([i \in DOMAIN sources |-> sources[p[i]]]) = new_loads

\* two different sources with load whose closures overlap were redistributed
C3_Witness ==
    /\ call # "none"
    /\ \E a, b \in LoadNodes :
        /\ a # b /\ InSources(a) /\ InSources(b)
        /\ loads[a][1] > 0 /\ loads[b][1] > 0
        /\ NkSet(a) \cap NkSet(b) # {}
        /\ new_loads[a] # loads[a]

\* the amount the call redistributes for the source at position i of the list
C18_AmountAt(i) ==
    LET k == sources[i]
    IN  IF k \notin DOMAIN loads THEN Zero
        ELSE IF call = "paper" /\ k = "Sw2" /\ sw2_threshold # <<>>
             THEN RMax(Zero, RSub(loads[k], Float(sw2_threshold[1])))
        ELSE loads[k]

\* the positions of the list whose source redistributes a positive amount
C18_Active == { i \in DOMAIN sources : RLt(Zero, C18_AmountAt(i)) }

\* sum of degree(m) ** beta over the closure of k
C18_DegreeSum(k) ==
    LET w == [m \in NkSet(k) |-> Float(Pow(Get(degrees, m, 0), beta))]
    IN  Total(w)[1]

\* what receiver j holds after the call when every share is
\* amount * degree(j) ** beta / (sum of degree(m) ** beta over m in Nk)
C18_Expected(j) ==
    LET removed  == [i \in { i \in C18_Active : sources[i] = j } |-> C18_AmountAt(i)]
        credited == [i \in { i \in C18_Active : j \in NkSet(sources[i]) } |->
                        RMul(C18_AmountAt(i),
                             Rat(Pow(Get(degrees, j, 0), beta),
                                 C18_DegreeSum(sources[i])))]
    IN  RAdd(RSub(Get(loads, j, Zero), Total(removed)), Total(credited))

\* C18: each receiver j of the closure Nk of a source k is credited
\* amount * degree(j)^beta / (sum over Nk of degree(m)^beta), so the returned
\* snapshot is the input minus the amounts plus these shares; the example
\* {Sw1:10, Sw2:60, Sw3:5}, degrees {3,4,3}, source Sw2, beta = 1 gives
\* {Sw1:28, Sw2:24, Sw3:23} in full mode.
C18_WeightCorrectness ==
    /\ (call # "none" /\ \A i \in C18_Active : C18_DegreeSum(sources[i]) > 0) =>
          /\ DOMAIN new_loads =
                DOMAIN loads \cup UNION { NkSet(sources[i]) : i \in C18_Active }
          /\ \A j \in DOMAIN new_loads : new_loads[j] = C18_Expected(j)
    /\ (/\ call = "full" /\ beta = 1 /\ loads = ExampleLoads /\ sources = <<"Sw2">>
        /\ degrees = ExampleDegrees /\ neighbors_map = <<ExampleNeighbors>>) =>
          new_loads = [n \in LoadNodes |->
                          Float(IF n = "Sw1" THEN 28 ELSE IF n = "Sw2" THEN 24 ELSE 23)]

\* the example call was made and returned Sw1 = 28
C18_Witness ==
    /\ call = "full" /\ beta = 1 /\ loads = ExampleLoads /\ sources = <<"Sw2">>
    /\ degrees = ExampleDegrees /\ neighbors_map = <<ExampleNeighbors>>
    /\ new_loads["Sw1"] = Float(28)

C20_NoOpSource(k) ==
    \/ k \notin DOMAIN loads
    \/ loads[k] = Zero
    \/ NkSet(k) = {k}

C20_Effective == SelectSeq(sources, LAMBDA k : ~C20_NoOpSource(k))

\* C20: with an empty source list the returned snapshot equals the input; a
\* listed source that is unknown to the snapshot, has load 0 or has no
\* neighbours changes no load: the call returns what it returns without these
\* sources, and the input itself when every listed source is of these kinds.
\* Every such call returns.
C20_NoOpCases ==
    call # "none" =>
        /\ sources = <<>> => new_loads = loads
        /\ new_loads = Recall(C20_Effective)
        /\ (\A i \in DOMAIN sources : C20_NoOpSource(sources[i])) => new_loads = loads

\* a call listing an unknown source and a loaded source without neighbours
\* returned the input
C20_Witness ==
    /\ call # "none"
    /\ \E i \in DOMAIN sources : sources[i] \notin DOMAIN loads
    /\ \E i \in DOMAIN sources :
           /\ sources[i] \in DOMAIN loads
           /\ RLt(Zero, loads[sources[i]])
           /\ NkSet(sources[i]) = {sources[i]}
    /\ new_loads = loads

\* C26: a per-paper call without a threshold, or whose sources do not include
\* "Sw2", returns the snapshot the full function returns for the same snapshot,
\* degrees, sources, neighbour map and beta.
C26_ExcessOnlyReducesToFull ==
    /\ (call = "paper" /\ (sw2_threshold = <<>> \/ ~InSources("Sw2"))) =>
           new_loads = proportional_redistribute_sources_full(
                           loads, degrees, sources, neighbors_map, beta)
    /\ call = "full" =>
           new_loads = proportional_redistribute_sources_per_paper(
                           loads, degrees, sources, neighbors_map, beta, <<>>)

\* a per-paper call with a threshold below the load of its source "Sw1", and
\* without "Sw2", moved the whole load of "Sw1"
C26_Witness ==
    /\ call = "paper"
    /\ sw2_threshold # <<>>
    /\ sources # <<>> /\ ~InSources("Sw2") /\ InSources("Sw1")
    /\ RLt(Float(sw2_threshold[1]), loads["Sw1"])
    /\ Cardinality(NkSet("Sw1")) > 1
    /\ new_loads # loads

\* C30 as stated: whatever the source list, one that names a node more than
\* once included, every load of the snapshot returned by either function is
\* >= 0 (the loads and degrees passed are non-negative).
C30_NonNegativeOutput ==
    call # "none" => \A n \in DOMAIN new_loads : RLe(Zero, new_loads[n])

(***************************************************************************)
(* A MitigationScheme object and the calls made on it.                     *)
(***************************************************************************)
MaxThreshold  == 3   \* initial_threshold ranges over 0..MaxThreshold
MaxStep       == 2   \* the decay step s ranges over 1..MaxStep
MaxTopK       == 3   \* top_k ranges over 0..MaxTopK
MaxCalls      == 2   \* at most MaxCalls apply_after_trigger calls are made
MaxRedisIndex == 4   \* redis_index ranges over 0..MaxRedisIndex

\* topo.switches
Switches == <<"Sw1", "Sw2", "Sw3", "Sw4", "Sw5">>

\* all_switches arguments: the topology's list and partial lists
AllSwitchesLists == { Switches, <<"Sw5", "Sw4", "Sw2", "Sw1">>, <<>> }

\* overloaded_switch arguments: the bottleneck, another switch, an unknown id
OverloadedChoices == {"Sw2", "Sw3", "Sw9"}

\* (loads, reliabilities) arguments: empty maps (every key takes its default),
\* and maps whose ranking differs from every table entry, with a tie
MetricChoices ==
    { <<(<<>>), (<<>>)>>,
      << [n \in {"Sw1", "Sw2", "Sw3", "Sw4", "Sw5"} |->
             IF n = "Sw4" THEN Float(8) ELSE IF n = "Sw5" THEN Float(3)
             ELSE IF n = "Sw2" THEN Float(9) ELSE Float(1)],
         [n \in {"Sw1", "Sw2", "Sw3", "Sw4", "Sw5"} |->
             IF n = "Sw4" THEN Rat(1, 10) ELSE IF n = "Sw5" THEN Rat(1, 5)
             ELSE IF n = "Sw2" THEN Rat(1, 2) ELSE Rat(9, 10)] >> }

NoSelection ==
    [called |-> FALSE, loads |-> <<>>, reliabilities |-> <<>>, overloaded_switch |-> "",
     all_switches |-> <<>>, redis_index |-> 0, phi |-> <<>>]

\* MitigationScheme(scheme_id, initial_threshold, s, top_k)
InitScheme ==
    /\ scheme_id \in 1..4
    /\ initial_threshold \in 0..MaxThreshold
    /\ s \in 1..MaxStep
    /\ top_k \in 0..MaxTopK
    /\ dynamic_threshold = initial_threshold
    /\ n_apply = 0
    /\ sel = NoSelection
    /\ thr_ret = <<>>
    /\ loads = <<>>
    /\ redisIdle
    /\ pc = "scheme" /\ t = 0 /\ t_prev = 0 /\ mission_time = 0 /\ redis_count = 0
    /\ current_threshold = 0 /\ records = <<>> /\ self_alpha = 1 /\ result = <<>>
    /\ evalIdle
    /\ objIdle

\* scheme.threshold()
Threshold ==
    /\ pc = "scheme"
    /\ thr_ret' = <<dynamic_threshold>>
    /\ sel' = NoSelection
    /\ UNCHANGED <<loads, redisVars, driverVars, scheme_id, initial_threshold, s, top_k,
                   dynamic_threshold, n_apply>>
    /\ UNCHANGED <<evalVars, objVars>>

\* scheme.apply_after_trigger()
ApplyAfterTrigger ==
    /\ pc = "scheme"
    /\ n_apply < MaxCalls
    /\ dynamic_threshold' = apply_after_trigger(scheme_id, dynamic_threshold, s)
    /\ n_apply' = n_apply + 1
    /\ sel' = NoSelection
    /\ thr_ret' = <<>>
    /\ UNCHANGED <<loads, redisVars, driverVars, scheme_id, initial_threshold, s, top_k>>
    /\ UNCHANGED <<evalVars, objVars>>

\* scheme.select_sources(loads, reliabilities, overloaded_switch, all_switches, redis_index)
SelectSources ==
    /\ pc = "scheme"
    /\ \E m \in MetricChoices, ov \in OverloadedChoices, all \in AllSwitchesLists,
          ri \in 0..MaxRedisIndex :
        \* the metric maps rank the topology's five switches
        /\ m[1] # <<>> => all = Switches
        /\ sel' = [called |-> TRUE, loads |-> m[1], reliabilities |-> m[2],
                   overloaded_switch |-> ov, all_switches |-> all, redis_index |-> ri,
                   phi |-> select_sources(scheme_id, top_k, m[1], m[2], ov, all, ri)]
    /\ thr_ret' = <<>>
    /\ UNCHANGED <<loads, redisVars, driverVars, scheme_id, initial_threshold, s, top_k,
                   dynamic_threshold, n_apply>>
    /\ UNCHANGED <<evalVars, objVars>>

NextScheme == Threshold \/ ApplyAfterTrigger \/ SelectSources

SpecScheme == InitScheme /\ [][NextScheme]_vars

\* C7: on a dynamic scheme every apply_after_trigger call strictly lowers the
\* threshold or leaves it at the floor 0, and no step ever raises it.
C7_DynamicMonotone ==
    [][ is_dynamic(scheme_id) =>
            /\ dynamic_threshold' <= dynamic_threshold
            /\ n_apply' # n_apply =>
                  \/ dynamic_threshold' < dynamic_threshold
                  \/ dynamic_threshold = 0 /\ dynamic_threshold' = 0 ]_vars

\* a dynamic scheme whose threshold has decayed twice and is still above the floor
C7_Witness ==
    /\ is_dynamic(scheme_id)
    /\ n_apply >= 2
    /\ 0 < dynamic_threshold
    /\ dynamic_threshold = initial_threshold - n_apply * s

\* C8: on a dynamic scheme the threshold is never negative, whatever the step,
\* and apply_after_trigger can always be called (it never fails).
C8_ThresholdFloor ==
    is_dynamic(scheme_id) /\ pc = "scheme" =>
        /\ dynamic_threshold >= 0
        /\ thr_ret # <<>> => thr_ret[1] >= 0
        /\ n_apply < MaxCalls => ENABLED ApplyAfterTrigger

\* a step larger than the positive remaining threshold was applied and clamped
C8_Witness ==
    /\ is_dynamic(scheme_id)
    /\ n_apply >= 1
    /\ dynamic_threshold = 0
    /\ initial_threshold - (n_apply - 1) * s > 0
    /\ initial_threshold - n_apply * s < 0
    /\ thr_ret = <<0>>

\* C9: on a static scheme threshold() is the initial threshold after any
\* sequence of apply_after_trigger, select_sources and threshold calls.
C9_StaticConstant ==
    scheme_id \in {1, 2} /\ pc = "scheme" =>
        /\ dynamic_threshold = initial_threshold
        /\ thr_ret # <<>> => thr_ret[1] = initial_threshold

\* threshold() was called on a static scheme after two apply_after_trigger calls
C9_Witness ==
    /\ scheme_id \in {1, 2} /\ pc = "scheme"
    /\ n_apply >= 2 /\ thr_ret # <<>>
    /\ initial_threshold >= s

\* the ids of a table entry that select_sources may return
C10_Eligible(x) == InList(x, sel.all_switches) /\ x # sel.overloaded_switch

\* positions of the entry that hold an eligible id
C10_Positions(entry) == { q \in DOMAIN entry : C10_Eligible(entry[q]) }

\* C10: when the table has an entry for the scheme and the round, select_sources
\* returns that entry's eligible ids (present in all_switches, not the excluded
\* node) in table order, cut to the first top_k of them.
C10_OverrideTable ==
    (sel.called /\ sel.redis_index \in 1..3) =>
        LET entry == predefined_phi[scheme_id][sel.redis_index]
            pos   == C10_Positions(entry)
        IN  /\ Len(sel.phi) = Min(top_k, Cardinality(pos))
            /\ \A i \in DOMAIN sel.phi :
                  \E q \in pos :
                      /\ sel.phi[i] = entry[q]
                      /\ Cardinality({ r \in pos : r <= q }) = i
            /\ \A i \in DOMAIN sel.phi :
                  /\ sel.phi[i] # sel.overloaded_switch
                  /\ InList(sel.phi[i], sel.all_switches)
            /\ Len(sel.phi) <= top_k

\* the excluded node and an absent id were dropped from an entry, and the rest
\* was cut by top_k
C10_Witness ==
    /\ sel.called /\ sel.redis_index \in 1..3
    /\ LET entry == predefined_phi[scheme_id][sel.redis_index]
       IN  /\ InList(sel.overloaded_switch, entry)
           /\ \E q \in DOMAIN entry : ~InList(entry[q], sel.all_switches)
           /\ Cardinality(C10_Positions(entry)) > top_k
           /\ Len(sel.phi) >= 1

\* the sort key of candidate x under the scheme's metric, smaller is first:
\* its reliability (default 1.0) on schemes 1 and 3, minus its load on 2 and 4
C11_Key(x) ==
    IF scheme_id \in {1, 3} THEN Get(sel.reliabilities, x, <<1, 1>>)
    ELSE RNeg(Get(sel.loads, x, Zero))

\* C11 as stated: select_sources returns the top_k candidates (all switches but
\* the overloaded one) ranked by the scheme's metric: lowest reliability first
\* on schemes 1 and 3, highest load first on schemes 2 and 4.
C11_MetricSelection ==
    sel.called =>
        LET cand == Range(sel.all_switches) \ {sel.overloaded_switch}
            phi  == sel.phi
        IN  /\ Len(phi) = Min(top_k, Cardinality(cand))
            /\ \A i \in DOMAIN phi : phi[i] \in cand
            /\ \A i, j \in DOMAIN phi :
                  i < j => phi[i] # phi[j] /\ RLe(C11_Key(phi[i]), C11_Key(phi[j]))
            /\ \A x \in cand \ Range(phi) : \A i \in DOMAIN phi :
                  RLe(C11_Key(phi[i]), C11_Key(x))

(***************************************************************************)
(* aftm_model.py: lambda_L and reliability_R                               *)
(***************************************************************************)
\* x ** n for a rational x and a whole n >= 0 (Python: 0.0 ** 0 = 1.0)
RECURSIVE RPow(_, _)
RPow(x, n) == IF n = 0 THEN <<1, 1>> ELSE RMul(x, RPow(x, n - 1))

\* L ** alpha: <<value>>, or <<>> when Python raises ZeroDivisionError
Power(L, alpha) ==
    IF alpha >= 0 THEN <<RPow(L, alpha)>>
    ELSE IF L = Zero THEN <<>>
    ELSE LET p == RPow(L, -alpha) IN <<Rat(p[2], p[1])>>

\* lambda_L(base_lambda, L, alpha) = base_lambda * (L ** alpha): <<value>>, or
\* <<>> when the power raises
lambda_L(base_lambda, L, alpha) ==
    IF Power(L, alpha) = <<>> THEN <<>>
    ELSE <<RMul(base_lambda, Power(L, alpha)[1])>>

\* The outcome of reliability_R(t, L, base_lambda, alpha).  The returned
\* math.exp(-lam * t) is kept as its exponent: the value is 1 iff it is 0.
reliability_R(tt, L, base_lambda, alpha) ==
    LET lam == lambda_L(base_lambda, L, alpha)
    IN  IF lam = <<>>
        THEN [raised |-> "ZeroDivisionError", lam |-> <<>>, exponent |-> <<>>]
        ELSE IF tt < 0
        THEN [raised |-> "ValueError", lam |-> lam, exponent |-> <<>>]
        ELSE [raised |-> "", lam |-> lam,
              exponent |-> <<RMul(RNeg(lam[1]), Float(tt))>>]

(***************************************************************************)
(* simulation.py: Simulation.run_scheme_and_print                          *)
(***************************************************************************)
MaxMission == 5      \* mission_time ranges over 0..MaxMission
MaxDeficit == 2      \* Sw2 first reaches 50 at tick d, for d in 0..MaxDeficit

\* MitigationScheme(scheme_id, initial_threshold=50.0, s=s_dynamic, top_k=3)
DriverInitialThreshold == 50
DriverTopK == 3

\* s_dynamic arguments: the default 5.0 and a step that reaches the floor
SDynamicChoices == {5, 30}

\* topo.degrees
TopoDegrees ==
    [n \in {"Sw1", "Sw2", "Sw3", "Sw4", "Sw5"} |-> IF n \in {"Sw1", "Sw3"} THEN 3 ELSE 4]

\* topo.L0 for d = 0.  For d > 0, Sw2 starts d ticks of growth below 50.025,
\* so that it passes 50 at tick d by a margin no float rounding can close.
TopoL0(d) ==
    [n \in {"Sw1", "Sw2", "Sw3", "Sw4", "Sw5"} |->
        IF n = "Sw1" THEN Float(15)
        ELSE IF n = "Sw2"
             THEN IF d = 0 THEN Float(50) ELSE RSub(Float(50), Rat(2 * d - 1, 40))
        ELSE IF n = "Sw3" THEN Float(5)
        ELSE IF n = "Sw4" THEN Float(1)
        ELSE Float(8)]

\* neighbors_map of perform_redistribution
DriverNeighbors ==
    [n \in {"Sw1", "Sw2", "Sw3", "Sw4", "Sw5"} |->
        IF n = "Sw1" THEN <<"Sw4">>
        ELSE IF n = "Sw2" THEN <<"Sw4", "Sw5">>
        ELSE IF n = "Sw3" THEN <<"Sw5">>
        ELSE IF n = "Sw4" THEN <<"Sw1", "Sw2">>
        ELSE <<"Sw2", "Sw3">>]

\* {sw: d.get(sw, 0.0) for sw in Sw1..Sw5}
SwitchLoads(d) == [n \in {"Sw1", "Sw2", "Sw3", "Sw4", "Sw5"} |-> Get(d, n, Zero)]

\* the test of the main loop
LoopCondTimeOnly(tt, mission, count) == tt <= mission

LoopCond(tt, mission, count) == tt <= mission /\ count < 3

\* the test of the static branch's inner loop
StaticMoreTwo(count) == count < 2

StaticMore(count) == count < 3

\* loads["Sw2"] = loads.get("Sw2", 0.0) + 0.05 * (t - t_prev)
Grown(lds, tt, tp) ==
    [lds EXCEPT !["Sw2"] = RAdd(Get(lds, "Sw2", Zero), RMul(Rat(1, 20), Float(tt - tp)))]

\* loads["Sw2"] >= current_threshold
TriggeredAbove(lds, thr) == RLt(Float(thr), lds["Sw2"])

Triggered(lds, thr) == RLe(Float(thr), lds["Sw2"])

InitDriver ==
    /\ scheme_id \in 1..4
    /\ initial_threshold = DriverInitialThreshold
    /\ s \in SDynamicChoices
    /\ top_k = DriverTopK
    /\ dynamic_threshold = DriverInitialThreshold
    /\ n_apply = 0
    /\ sel = NoSelection
    /\ thr_ret = <<>>
    /\ mission_time \in 0..MaxMission
    /\ \E d \in 0..MaxDeficit : loads = TopoL0(d)
    /\ degrees = TopoDegrees
    /\ neighbors_map = <<DriverNeighbors>>
    /\ beta = 1
    /\ sources = <<>>
    /\ sw2_threshold = <<>>
    /\ call = "none"
    /\ new_loads = <<>>
    /\ pc = "loop"
    /\ t = 0
    /\ t_prev = 0
    /\ redis_count = 0
    /\ current_threshold = DriverInitialThreshold
    /\ records = <<>>
    /\ self_alpha = 1
    /\ result = <<>>
    /\ evalIdle
    /\ objIdle

\* _compute_all_reliabilities(t, loads): the exception it ends with, "" if it
\* returns.  The driver's t is >= 0, so reliability_R(t, L, base_lam, alpha)
\* raises exactly when L ** alpha does; the servers' and arrays' math.exp never
\* raises.  The reliabilities themselves are not represented.
RECURSIVE ComputeAllRaised(_, _, _)
ComputeAllRaised(i, tt, lds) ==
    IF i > Len(Switches) THEN ""
    ELSE IF Power(Get(lds, Switches[i], Zero), self_alpha) = <<>>
         THEN "ZeroDivisionError"
         ELSE ComputeAllRaised(i + 1, tt, lds)

\* the sources and the snapshot computed by one round on loads_dict
RoundSources(loads_dict) ==
    select_sources(scheme_id, top_k, loads_dict, <<>>, "Sw2", Switches, redis_count + 1)

RoundLoads(threshold, loads_dict) ==
    proportional_redistribute_sources_per_paper(
        loads_dict, degrees, RoundSources(loads_dict), neighbors_map, beta, <<threshold>>)

\* the exception one round ends with, "" if it returns: system_reliability gets
\* all nine keys and the IR division is guarded, so only the reliabilities
\* before (line 70) and after (line 91) can raise
RoundRaised(current_t, threshold, loads_dict) ==
    IF ComputeAllRaised(1, current_t, loads_dict) # ""
    THEN ComputeAllRaised(1, current_t, loads_dict)
    ELSE ComputeAllRaised(1, current_t, RoundLoads(threshold, loads_dict))

\* what run_scheme_and_print gives its caller: the returned dict with the
\* printed and exported records, or the exception that left the function
Returned ==
    [raised |-> "", value |-> <<[redistributions |-> redis_count, records |-> records]>>]

Propagated(exc) == [raised |-> exc, value |-> <<>>]

\* perform_redistribution(current_t, threshold, loads_dict): the part of an
\* action that runs one round on loads_dict and yields the new current loads
PerformRedistribution(current_t, threshold, loads_dict) ==
    LET upcoming_index == redis_count + 1
        \* the reliabilities passed here are exp() values that the table
        \* selection never reads: they are not represented
        srcs == select_sources(scheme_id, top_k, loads_dict, <<>>, "Sw2", Switches,
                               upcoming_index)
        nl   == proportional_redistribute_sources_per_paper(
                    loads_dict, degrees, srcs, neighbors_map, beta, <<threshold>>)
    IN  /\ RoundRaised(current_t, threshold, loads_dict) = ""
        /\ sel' = [called |-> TRUE, loads |-> loads_dict, reliabilities |-> <<>>,
                   overloaded_switch |-> "Sw2", all_switches |-> Switches,
                   redis_index |-> upcoming_index, phi |-> srcs]
        /\ sources' = srcs
        /\ sw2_threshold' = <<threshold>>
        /\ call' = "paper"
        /\ new_loads' = nl
        /\ redis_count' = redis_count + 1
        /\ records' = Append(records,
                             [t |-> current_t, threshold |-> threshold,
                              loads_before |-> SwitchLoads(loads_dict),
                              loads_after |-> SwitchLoads(nl)])
        /\ loads' = nl

\* the loop test fails: the loop ends
LoopExit ==
    /\ pc = "loop"
    /\ ~LoopCond(t, mission_time, redis_count)
    /\ pc' = "done"
    /\ result' = Returned
    /\ UNCHANGED <<loads, redisVars, schemeVars, t, t_prev, mission_time, redis_count,
                   current_threshold, records, self_alpha>>
    /\ UNCHANGED <<evalVars, objVars>>

\* one iteration in which Sw2 stays below the threshold
TickQuiet ==
    /\ pc = "loop"
    /\ LoopCond(t, mission_time, redis_count)
    /\ ~Triggered(Grown(loads, t, t_prev), dynamic_threshold)
    /\ loads' = Grown(loads, t, t_prev)
    /\ t_prev' = t
    /\ current_threshold' = dynamic_threshold
    /\ thr_ret' = <<dynamic_threshold>>
    /\ t' = t + 1
    /\ UNCHANGED <<redisVars, scheme_id, initial_threshold, s, top_k, dynamic_threshold,
                   n_apply, sel, pc, mission_time, redis_count, records, self_alpha, result>>
    /\ UNCHANGED <<evalVars, objVars>>

\* one iteration of a dynamic scheme that triggers: one round, then
\* apply_after_trigger, then the next tick
TickDynamic ==
    /\ pc = "loop"
    /\ LoopCond(t, mission_time, redis_count)
    /\ Triggered(Grown(loads, t, t_prev), dynamic_threshold)
    /\ scheme_id \notin {1, 2}
    /\ PerformRedistribution(t, dynamic_threshold, Grown(loads, t, t_prev))
    /\ t_prev' = t
    /\ current_threshold' = dynamic_threshold
    /\ thr_ret' = <<dynamic_threshold>>
    /\ dynamic_threshold' = apply_after_trigger(scheme_id, dynamic_threshold, s)
    /\ n_apply' = n_apply + 1
    /\ t' = t + 1
    /\ UNCHANGED <<degrees, neighbors_map, beta, scheme_id, initial_threshold, s, top_k,
                   pc, mission_time, self_alpha, result>>
    /\ UNCHANGED <<evalVars, objVars>>

\* one iteration of a static scheme that triggers: enters the inner loop
TickStatic ==
    /\ pc = "loop"
    /\ LoopCond(t, mission_time, redis_count)
    /\ Triggered(Grown(loads, t, t_prev), dynamic_threshold)
    /\ scheme_id \in {1, 2}
    /\ loads' = Grown(loads, t, t_prev)
    /\ t_prev' = t
    /\ current_threshold' = dynamic_threshold
    /\ thr_ret' = <<dynamic_threshold>>
    /\ pc' = "static"
    /\ UNCHANGED <<redisVars, scheme_id, initial_threshold, s, top_k, dynamic_threshold,
                   n_apply, sel, t, mission_time, redis_count, records, self_alpha, result>>
    /\ UNCHANGED <<evalVars, objVars>>

\* one pass of `while redis_count < 3: loads = perform_redistribution(...)`
StaticRound ==
    /\ pc = "static"
    /\ StaticMore(redis_count)
    /\ PerformRedistribution(t, current_threshold, loads)
    /\ UNCHANGED <<degrees, neighbors_map, beta, scheme_id, initial_threshold, s, top_k,
                   dynamic_threshold, n_apply, thr_ret, pc, t, t_prev, mission_time,
                   current_threshold, self_alpha, result>>
    /\ UNCHANGED <<evalVars, objVars>>

\* the inner loop is over: break
StaticBreak ==
    /\ pc = "static"
    /\ ~StaticMore(redis_count)
    /\ pc' = "done"
    /\ result' = Returned
    /\ UNCHANGED <<loads, redisVars, schemeVars, t, t_prev, mission_time, redis_count,
                   current_threshold, records, self_alpha>>
    /\ UNCHANGED <<evalVars, objVars>>

NextDriver ==
    LoopExit \/ TickQuiet \/ TickDynamic \/ TickStatic \/ StaticRound \/ StaticBreak

SpecDriver == InitDriver /\ [][NextDriver]_vars

\* The interpreter runs the loop to completion: no step is postponed forever.
\* This is WF_vars(NextDriver) with ENABLED <<NextDriver>>_vars written out as
\* pc # "done": in every state with pc = "loop" or pc = "static" the guards of
\* the actions are exhaustive (each test or its negation), and every step
\* changes pc, t or redis_count.
FairSpecDriver ==
    SpecDriver /\ ([]<>(pc = "done") \/ []<><<NextDriver>>_vars)

\* C4: the main loop terminates, it ends only with three rounds recorded or with
\* the tick counter past the horizon, and never are more than three rounds recorded.
C4_DriverTerminates ==
    /\ <>(pc = "done")
    /\ [](redis_count <= 3 /\ Len(records) = redis_count)
    /\ [](pc = "done" => (redis_count = 3 \/ t > mission_time))

\* a run that ended by the round count, and a state of a run that can only end
\* by the horizon are both reached: here the first
C4_Witness ==
    /\ pc = "done" /\ redis_count = 3 /\ t <= mission_time /\ t > 0

\* C5: a static scheme performs, at the first tick where Sw2 reaches the
\* threshold, three chained rounds with one trigger time and one threshold, and
\* the driver then stops at that tick.
C5_StaticThreeRounds ==
    scheme_id \in {1, 2} =>
        /\ \A k \in DOMAIN records :
              /\ records[k].t = records[1].t
              /\ records[k].threshold = initial_threshold
              /\ k > 1 => records[k].loads_before = records[k - 1].loads_after
        /\ records # <<>> =>
              /\ t = records[1].t
              /\ pc \in {"static", "done"}
              /\ RLe(Float(initial_threshold), records[1].loads_before["Sw2"])
              /\ \/ records[1].t = 0
                 \/ RLt(RSub(records[1].loads_before["Sw2"], Rat(1, 20)),
                        Float(initial_threshold))
        /\ pc = "done" => Len(records) \in {0, 3}
        /\ pc = "done" /\ records = <<>> => t > mission_time

\* a static run that triggered after some quiet ticks and has stopped
C5_Witness ==
    /\ scheme_id \in {1, 2} /\ pc = "done"
    /\ Len(records) = 3 /\ records[1].t > 0
    /\ records[3].loads_after # records[1].loads_before

\* C6: a dynamic scheme performs at most one round per tick, calls
\* apply_after_trigger once after each round and goes on ticking: trigger times
\* increase strictly and round k records max(0, initial_threshold - (k-1)*s).
C6_DynamicOnePerTick ==
    scheme_id \in {3, 4} =>
        /\ n_apply = Len(records)
        /\ \A k \in DOMAIN records :
              /\ records[k].threshold = Max(0, initial_threshold - (k - 1) * s)
              /\ k > 1 => records[k - 1].t < records[k].t
        /\ records # <<>> => t > records[Len(records)].t
        /\ pc # "static"

\* a dynamic run with three rounds whose threshold decayed to the floor
C6_Witness ==
    /\ scheme_id \in {3, 4} /\ pc = "done"
    /\ Len(records) = 3
    /\ records[2].threshold < records[1].threshold
    /\ records[3].threshold = 0

\* C17: every load the driver holds, and every load of a record's before and
\* after snapshots, is >= 0, whatever the scheme, the ticks and the rounds.
C17_NonNegativeLoads ==
    pc \in {"loop", "static", "done"} =>
        /\ \A n \in DOMAIN loads : RLe(Zero, loads[n])
        /\ \A k \in DOMAIN records : \A n \in DOMAIN records[k].loads_before :
              /\ RLe(Zero, records[k].loads_before[n])
              /\ RLe(Zero, records[k].loads_after[n])

\* after three rounds: a source of the last round, emptied of its whole load
\* and credited its own share, holds a smaller positive load
C17_Witness ==
    /\ pc = "done" /\ Len(records) = 3
    /\ \E n \in DOMAIN loads :
          /\ InList(n, sources)
          /\ RLt(Zero, records[3].loads_before[n])
          /\ RLt(Zero, loads[n])
          /\ RLt(loads[n], records[3].loads_before[n])

\* Sw2's load after the growth of the tick that begins
C24_Sw2Grown == RAdd(loads["Sw2"], RMul(Rat(1, 20), Float(t - t_prev)))

\* C24: at a tick that begins with fewer than three rounds recorded, a round is
\* performed if and only if Sw2's load after the tick's growth is >= the
\* threshold the scheme has at that tick; a static tick that triggered goes on
\* with rounds; and every record's Sw2 load is >= the record's threshold.
C24_TriggerCondition ==
    /\ [][ pc = "loop" /\ t <= mission_time /\ Len(records) < 3 =>
              /\ RLe(Float(dynamic_threshold), C24_Sw2Grown)
                    <=> (pc' = "static" \/ Len(records') = Len(records) + 1)
              /\ Len(records') > Len(records) =>
                    /\ records'[Len(records')].threshold = dynamic_threshold
                    /\ records'[Len(records')].loads_before["Sw2"] = C24_Sw2Grown ]_vars
    /\ [][ pc = "static" /\ Len(records) < 3 => Len(records') = Len(records) + 1 ]_vars
    /\ [](\A k \in DOMAIN records :
              RLe(Float(records[k].threshold), records[k].loads_before["Sw2"]))

\* a dynamic run that stayed below the threshold at its first ticks, then
\* triggered at three ticks, the first time with Sw2 just over the threshold
C24_Witness ==
    /\ scheme_id \in {3, 4}
    /\ Len(records) = 3
    /\ records[1].t > 1
    /\ RLt(Float(records[1].threshold), records[1].loads_before["Sw2"])
    /\ RLt(records[1].loads_before["Sw2"], RAdd(Float(records[1].threshold), Rat(1, 20)))

\* the first trigger time named by the docstring of run_scheme_and_print
DocFirstTrigger == 1000

\* the run began with the default L0: its first round saw Sw2 at 50 + 0.05 * t
C22_DefaultStart ==
    /\ records # <<>>
    /\ records[1].loads_before["Sw2"]
           = RAdd(TopoL0(0)["Sw2"], RMul(Rat(1, 20), Float(records[1].t)))

\* C22 as stated: with the default topology and the threshold 50, no round of a
\* static scheme is recorded at a tick before t = 1000.
C22_FirstTrigger ==
    scheme_id \in {1, 2} /\ C22_DefaultStart =>
        \A k \in DOMAIN records : records[k].t >= DocFirstTrigger

RunDegrees ==
    { TopoDegrees, [TopoDegrees EXCEPT !["Sw5"] = 0], [TopoDegrees EXCEPT !["Sw4"] = 0] }

\* the default L0, and an idle switch
RunL0 ==
    { TopoL0(d) : d \in 0..MaxDeficit } \cup { [TopoL0(0) EXCEPT !["Sw4"] = Zero] }

RunAlphas == {-1, 1}

InitRun ==
    /\ scheme_id \in 1..4
    /\ initial_threshold = DriverInitialThreshold
    /\ s \in SDynamicChoices
    /\ top_k = DriverTopK
    /\ dynamic_threshold = DriverInitialThreshold
    /\ n_apply = 0
    /\ sel = NoSelection
    /\ thr_ret = <<>>
    /\ mission_time \in 0..MaxMission
    /\ loads \in RunL0
    /\ degrees \in RunDegrees
    /\ neighbors_map = <<DriverNeighbors>>
    /\ beta = 1
    /\ sources = <<>>
    /\ sw2_threshold = <<>>
    /\ call = "none"
    /\ new_loads = <<>>
    /\ pc = "loop"
    /\ t = 0
    /\ t_prev = 0
    /\ redis_count = 0
    /\ current_threshold = DriverInitialThreshold
    /\ records = <<>>
    /\ self_alpha \in RunAlphas
    /\ result = <<>>
    /\ evalIdle
    /\ objIdle

\* perform_redistribution raises: at line 70 before anything was called, or at
\* line 91 after select_sources and the redistribution function returned.  The
\* exception leaves perform_redistribution before line 99, and the loop and
\* run_scheme_and_print after it, there being no handler.
RaisedRound(current_t, threshold, loads_dict) ==
    /\ RoundRaised(current_t, threshold, loads_dict) # ""
    /\ IF ComputeAllRaised(1, current_t, loads_dict) # ""
       THEN UNCHANGED <<sel, sources, sw2_threshold, call, new_loads>>
       ELSE /\ sel' = [called |-> TRUE, loads |-> loads_dict, reliabilities |-> <<>>,
                       overloaded_switch |-> "Sw2", all_switches |-> Switches,
                       redis_index |-> redis_count + 1,
                       phi |-> RoundSources(loads_dict)]
            /\ sources' = RoundSources(loads_dict)
            /\ sw2_threshold' = <<threshold>>
            /\ call' = "paper"
            /\ new_loads' = RoundLoads(threshold, loads_dict)
    /\ pc' = "raised"
    /\ result' = Propagated(RoundRaised(current_t, threshold, loads_dict))
    /\ UNCHANGED <<redis_count, records>>

\* one iteration of a dynamic scheme that triggers and whose round raises
TickDynamicRaises ==
    /\ pc = "loop"
    /\ LoopCond(t, mission_time, redis_count)
    /\ Triggered(Grown(loads, t, t_prev), dynamic_threshold)
    /\ scheme_id \notin {1, 2}
    /\ RaisedRound(t, dynamic_threshold, Grown(loads, t, t_prev))
    /\ loads' = Grown(loads, t, t_prev)
    /\ t_prev' = t
    /\ current_threshold' = dynamic_threshold
    /\ thr_ret' = <<dynamic_threshold>>
    /\ UNCHANGED <<degrees, neighbors_map, beta, scheme_id, initial_threshold, s, top_k,
                   dynamic_threshold, n_apply, t, mission_time, self_alpha>>
    /\ UNCHANGED <<evalVars, objVars>>

\* one pass of the static inner loop whose round raises
StaticRoundRaises ==
    /\ pc = "static"
    /\ StaticMore(redis_count)
    /\ RaisedRound(t, current_threshold, loads)
    /\ UNCHANGED <<loads, degrees, neighbors_map, beta, scheme_id, initial_threshold, s,
                   top_k, dynamic_threshold, n_apply, thr_ret, t, t_prev, mission_time,
                   current_threshold, self_alpha>>
    /\ UNCHANGED <<evalVars, objVars>>

NextRun == NextDriver \/ TickDynamicRaises \/ StaticRoundRaises

SpecRun == InitRun /\ [][NextRun]_vars

\* C21 as stated: a round that raises leaves the round counter, the records (and
\* IR list) and the current loads as they were when the round began, the caller
\* gets the exception, nothing follows it, and the rounds recorded before it are
\* part of what the run gives its caller.
C21_FailedRound ==
    [][ /\ pc' = "raised" /\ pc # "raised" =>
            /\ redis_count' = redis_count
            /\ records' = records
            /\ loads' = (IF pc = "loop" THEN Grown(loads, t, t_prev) ELSE loads)
            /\ result'.raised # ""
            /\ records # <<>> =>
                  (result'.value # <<>> /\ result'.value[1].records = records)
        /\ pc = "raised" => UNCHANGED <<loads, redis_count, records, result>> ]_vars

(***************************************************************************)
(* san_topology.py: SANTopology objects, copy() and reset_loads()           *)
(*                                                                         *)
(* The dicts of a topology are objects of a heap, so that two topologies   *)
(* can share one.  A topology is the record of the objects its attributes  *)
(* adj, degrees, L0 and loads name.                                        *)
(***************************************************************************)
MaxTopos   == 3      \* at most MaxTopos topologies exist
MaxTopoOps == 4      \* at most MaxTopoOps operations are made

Fields == {"adj", "degrees", "L0", "loads"}

\* self.adj
TopoAdj ==
    [n \in {"Sr1", "Sr2", "Sa1", "Sa2", "Sw1", "Sw2", "Sw3", "Sw4", "Sw5"} |->
        IF n = "Sr1" THEN <<"Sw4", "Sw5">>
        ELSE IF n = "Sr2" THEN <<"Sw3", "Sw5">>
        ELSE IF n = "Sa1" THEN <<"Sw1", "Sw2">>
        ELSE IF n = "Sa2" THEN <<"Sw2", "Sw3">>
        ELSE IF n = "Sw1" THEN <<"Sa1", "Sw2", "Sw4", "Sw5">>
        ELSE IF n = "Sw2" THEN <<"Sa1", "Sa2", "Sw1", "Sw3", "Sw4", "Sw5">>
        ELSE IF n = "Sw3" THEN <<"Sr2", "Sa2", "Sw2", "Sw4", "Sw5">>
        ELSE IF n = "Sw4" THEN <<"Sr1", "Sw1", "Sw2", "Sw3", "Sw5">>
        ELSE <<"Sr2", "Sw1", "Sw2", "Sw3", "Sw4">>]

\* the content of topology i, attribute by attribute
Contents(i) == [f \in Fields |-> heap[topos[i][f]]]

ContentsNext(i) == [f \in Fields |-> heap'[topos'[i][f]]]

\* SANTopology(): four dicts, self.loads being a deep copy of self.L0
InitTopo ==
    /\ heap = <<TopoAdj, TopoDegrees, TopoL0(0), TopoL0(0)>>
    /\ topos = <<[adj |-> 1, degrees |-> 2, L0 |-> 3, loads |-> 4]>>
    /\ topo_op = [kind |-> "init", target |-> 1, of |-> 1, n |-> 0]
    /\ ctlIdle
    /\ mainIdle
    /\ switch_reliabilities = <<>> /\ R_sys = <<>>
    /\ aftm_args = <<>> /\ aftm_ret = <<>>
    /\ loads = <<>>
    /\ redisIdle
    /\ schemeIdle
    /\ driverIdle

\* the attributes of the clone made of obj when the heap has n objects:
\* deepcopy copies every dict reachable from the topology into a new object
CloneRefsShallow(obj, n) == obj

CloneRefs(obj, n) == [adj |-> n + 1, degrees |-> n + 2, L0 |-> n + 3, loads |-> n + 4]

\* clone = topos[i].copy()
Copy ==
    /\ pc = "idle" /\ topo_op # <<>> /\ topo_op.n < MaxTopoOps
    /\ Len(topos) < MaxTopos
    /\ \E i \in DOMAIN topos :
        /\ heap' = heap \o <<heap[topos[i].adj], heap[topos[i].degrees],
                             heap[topos[i].L0], heap[topos[i].loads]>>
        /\ topos' = Append(topos, CloneRefs(topos[i], Len(heap)))
        /\ topo_op' = [kind |-> "copy", target |-> Len(topos) + 1, of |-> i,
                       n |-> topo_op.n + 1]
    /\ UNCHANGED <<loads, redisVars, schemeVars, driverVars, evalVars, ctlVars, mainVars>>

\* topos[i].reset_loads(): self.loads = deepcopy(self.L0)
ResetLoads ==
    /\ pc = "idle" /\ topo_op # <<>> /\ topo_op.n < MaxTopoOps
    /\ \E i \in DOMAIN topos :
        /\ heap' = Append(heap, heap[topos[i].L0])
        /\ topos' = [topos EXCEPT ![i].loads = Len(heap) + 1]
        /\ topo_op' = [kind |-> "reset_loads", target |-> i, of |-> i,
                       n |-> topo_op.n + 1]
    /\ UNCHANGED <<loads, redisVars, schemeVars, driverVars, evalVars, ctlVars, mainVars>>

\* a client's item assignment on a dict of topology i:
\* topos[i].loads[k] = v, topos[i].degrees[k] = v or topos[i].adj[k] = v
TopoWrites ==
    { <<"loads", "Sw2", Float(60)>>, <<"loads", "Sw2", Zero>>,
      <<"degrees", "Sw1", 0>>, <<"adj", "Sw1", <<"Sa1">>>> }

SetItem ==
    /\ pc = "idle" /\ topo_op # <<>> /\ topo_op.n < MaxTopoOps
    /\ \E i \in DOMAIN topos, w \in TopoWrites :
        /\ heap[topos[i][w[1]]][w[2]] # w[3]
        /\ heap' = [heap EXCEPT ![topos[i][w[1]]][w[2]] = w[3]]
        /\ topo_op' = [kind |-> "set", target |-> i, of |-> i, n |-> topo_op.n + 1]
    /\ UNCHANGED <<topos, loads, redisVars, schemeVars, driverVars, evalVars, ctlVars, mainVars>>

NextTopo == Copy \/ ResetLoads \/ SetItem

SpecTopo == InitTopo /\ [][NextTopo]_vars

\* C23: copy() gives a topology with the content of the original, an operation
\* on one topology changes no other topology, and reset_loads() makes the
\* loads of its topology equal to its L0 and changes nothing else of it.
C23_TopologyIsolation ==
    [][ /\ \A i \in DOMAIN topos : i # topo_op'.target => ContentsNext(i) = Contents(i)
        /\ topo_op'.kind = "copy" =>
               ContentsNext(topo_op'.target) = Contents(topo_op'.of)
        /\ topo_op'.kind = "reset_loads" =>
               /\ ContentsNext(topo_op'.target).loads = Contents(topo_op'.target).L0
               /\ \A f \in Fields \ {"loads"} :
                      ContentsNext(topo_op'.target)[f] = Contents(topo_op'.target)[f] ]_vars

\* a clone whose loads and degrees were changed was reset: it holds its L0 in a
\* new dict (the dict it had before, object 8, keeps the changed load), and the
\* original holds what it was constructed with
C23_Witness ==
    /\ topo_op # <<>> /\ topo_op.kind = "reset_loads" /\ topo_op.target = 2
    /\ Contents(1) = [adj |-> TopoAdj, degrees |-> TopoDegrees,
                      L0 |-> TopoL0(0), loads |-> TopoL0(0)]
    /\ Contents(2).degrees # TopoDegrees
    /\ Contents(2).loads = TopoL0(0)
    /\ topos[2].loads = 9
    /\ heap[8] # TopoL0(0)

(***************************************************************************)
(* main.py: successive calls of run_scheme_and_print on one Simulation     *)
(***************************************************************************)
MaxRuns == 3      \* at most MaxRuns calls are made on the Simulation

\* the loads a Simulation's topology can hold when main starts: those of
\* SANTopology(), or those of a topology whose Sw2 load was set before it was
\* passed to Simulation(topo=...)
MainLoads(L0) == { L0, [L0 EXCEPT !["Sw2"] = Float(60)] }

\* sim = Simulation(...), with a mission that ends while the rounds are being
\* made or one that lets three rounds be made; main passes one s_dynamic to
\* every call it makes, and s holds it from the start
InitMain ==
    /\ \E d \in 0..MaxDeficit : \E ld \in MainLoads(TopoL0(d)) :
          heap = <<TopoAdj, TopoDegrees, TopoL0(d), ld>>
    /\ topos = <<[adj |-> 1, degrees |-> 2, L0 |-> 3, loads |-> 4]>>
    /\ topo_op = [kind |-> "init", target |-> 1, of |-> 1, n |-> 0]
    /\ runs = <<>>
    /\ mission_time \in {MaxDeficit, MaxMission}
    /\ self_alpha = 1
    /\ pc = "main" /\ t = 0 /\ t_prev = 0 /\ redis_count = 0
    /\ current_threshold = 0 /\ records = <<>> /\ result = <<>>
    /\ loads = <<>>
    /\ redisIdle
    /\ scheme_id = 0 /\ initial_threshold = 0 /\ s \in SDynamicChoices /\ top_k = 0
    /\ dynamic_threshold = 0 /\ n_apply = 0 /\ sel = <<>> /\ thr_ret = <<>>
    /\ evalIdle
    /\ ctlIdle

\* scheme = MitigationScheme(scheme_id, initial_threshold=50.0, s=s_dynamic, top_k=3)
NewSchemeReused(id, s_dynamic) ==
    [scheme_id |-> id, initial_threshold |-> DriverInitialThreshold, s |-> s_dynamic,
     top_k |-> DriverTopK,
     dynamic_threshold |-> IF pc = "done" THEN dynamic_threshold
                           ELSE DriverInitialThreshold]

NewScheme(id, s_dynamic) ==
    [scheme_id |-> id, initial_threshold |-> DriverInitialThreshold, s |-> s_dynamic,
     top_k |-> DriverTopK, dynamic_threshold |-> DriverInitialThreshold]

\* sim.run_scheme_and_print(id, s_dynamic=s), up to the main loop: the scheme is
\* constructed, the Simulation's topology is copied and the copy's loads are
\* reset, and the locals are initialised.  The local topology of the call
\* made before is unreachable by now: its objects are dropped from the heap.
RunSchemeAndPrint ==
    /\ pc \in {"main", "done"}
    /\ Len(runs) + (IF pc = "done" THEN 1 ELSE 0) < MaxRuns
    /\ runs' = IF pc = "done"
               THEN Append(runs, [scheme_id |-> scheme_id, s |-> s, ret |-> result])
               ELSE runs
    /\ \E id \in 1..4 :
          LET scheme == NewScheme(id, s)
              own    == SubSeq(heap, 1, 4)
              local  == CloneRefs(topos[1], Len(own))
              copied == own \o <<own[topos[1].adj], own[topos[1].degrees],
                                 own[topos[1].L0], own[topos[1].loads]>>
          IN  /\ scheme_id' = scheme.scheme_id
              /\ initial_threshold' = scheme.initial_threshold
              /\ s' = scheme.s
              /\ top_k' = scheme.top_k
              /\ dynamic_threshold' = scheme.dynamic_threshold
              /\ heap' = Append(copied, copied[local.L0])
              /\ topos' = <<topos[1], [local EXCEPT !.loads = Len(copied) + 1]>>
              /\ topo_op' = [kind |-> "reset_loads", target |-> 2, of |-> 2, n |-> 0]
              /\ loads' = copied[local.L0]
              /\ degrees' = copied[local.degrees]
    /\ neighbors_map' = <<DriverNeighbors>>
    /\ beta' = 1
    /\ sources' = <<>> /\ sw2_threshold' = <<>> /\ call' = "none" /\ new_loads' = <<>>
    /\ n_apply' = 0 /\ sel' = NoSelection /\ thr_ret' = <<>>
    /\ pc' = "loop" /\ t' = 0 /\ t_prev' = 0 /\ redis_count' = 0
    /\ current_threshold' = DriverInitialThreshold
    /\ records' = <<>> /\ result' = <<>>
    /\ UNCHANGED <<mission_time, self_alpha, evalVars, ctlVars>>

NextMain == RunSchemeAndPrint \/ NextDriver

SpecMain == InitMain /\ [][NextMain]_vars

\* C29: every call starts from loads equal to the L0 of the Simulation's
\* topology, the initial threshold and no round made, whatever calls were made
\* before; no step changes the content of the Simulation's own topology; and
\* two calls with the same scheme and step on one Simulation return the same
\* records, whatever calls were made between them and before them.
C29_RunIndependence ==
    /\ [][ pc' = "loop" /\ pc \in {"main", "done"} =>
              (/\ loads' = Contents(1).L0
               /\ dynamic_threshold' = DriverInitialThreshold
               /\ initial_threshold' = DriverInitialThreshold
               /\ redis_count' = 0 /\ n_apply' = 0 /\ records' = <<>>
               /\ t' = 0 /\ t_prev' = 0) ]_vars
    /\ [][ ContentsNext(1) = Contents(1) /\ topos'[1] = topos[1] ]_vars
    /\ [](\A i \in DOMAIN runs :
             /\ \A j \in DOMAIN runs :
                   runs[i].scheme_id = runs[j].scheme_id /\ runs[i].s = runs[j].s
                       => runs[i].ret = runs[j].ret
             /\ pc = "done" /\ runs[i].scheme_id = scheme_id /\ runs[i].s = s
                   => runs[i].ret = result)

\* a dynamic scheme ran three rounds with a decayed threshold, a static scheme
\* ran after it, and the dynamic scheme ran again with the same outcome, on a
\* Simulation whose topology holds loads other than its L0
C29_Witness ==
    /\ pc = "done" /\ Len(runs) = 2
    /\ Contents(1).loads # Contents(1).L0
    /\ scheme_id = 3 /\ runs[1].scheme_id = 3 /\ runs[1].s = s
    /\ runs[2].scheme_id = 1 /\ Len(runs[2].ret.value[1].records) = 3
    /\ Len(records) = 3 /\ records[3].threshold < DriverInitialThreshold
    /\ runs[1].ret = result

(***************************************************************************)
(* network_simulator.py: NetworkSimulator, the dynamic-threshold policies   *)
(* of the GUI controller.  Display flags, logs and widgets are left out.   *)
(***************************************************************************)
MaxCtlTicks == 1     \* at most MaxCtlTicks simulation steps are run

\* self.dynamic_threshold_minimum
dynamic_threshold_minimum == 20

\* max_iterations of the redistribution loop
max_iterations == 4

\* the switches, in the order of self.components
CtlIds == <<"N1", "N2", "N3">>

\* base_lambda * operational_time of each switch, up to a common factor: the
\* switches tick together, so reliability = exp(-CtlRate * load), alpha being 1
CtlRate == [k \in Range(CtlIds) |-> IF k = "N2" THEN 2 ELSE 1]

\* what the user can set before the simulation starts
CtlThresholds == {10, 25, 50}
CtlReductions == {5, 30}
CtlTopKs == {1, 2}
CtlConnections ==
    { [k \in Range(CtlIds) |-> IF k = "N2" THEN <<"N1", "N3">> ELSE <<"N2">>],
      [k \in Range(CtlIds) |-> <<>>] }
CtlStartLoads ==
    { [k \in Range(CtlIds) |-> Float(IF k = "N1" THEN a ELSE IF k = "N2" THEN b ELSE 2)] :
        a \in {2, 12, 60}, b \in {2, 12} }

\* the request load one step adds to the switches
CtlGrowths ==
    { [k \in Range(CtlIds) |-> Zero],
      [k \in Range(CtlIds) |-> IF k = "N1" THEN Float(10) ELSE Zero] }

\* reliability_R(operational_time, load, base_lambda, alpha), as its exponent
CtlExponent(k, load) == RMul(Float(CtlRate[k]), load)

InitCtl ==
    /\ \E l0 \in CtlStartLoads :
          components = [k \in Range(CtlIds) |->
                           [current_load |-> l0[k], exponent |-> CtlExponent(k, l0[k])]]
    /\ connections \in CtlConnections
    /\ load_threshold \in CtlThresholds
    /\ dynamic_threshold_reduction \in CtlReductions
    /\ ctl_top_k \in CtlTopKs
    /\ load_distribution_strategy \in {"DYNAMIC_THRESHOLD_LOAD_SENSITIVE",
                                       "DYNAMIC_THRESHOLD_RELIABILITY_SENSITIVE"}
    /\ simulation_paused = FALSE
    /\ ctl_step = [n |-> 0, assigned |-> 0, below |-> FALSE]
    /\ topoIdle
    /\ mainIdle
    /\ switch_reliabilities = <<>> /\ R_sys = <<>>
    /\ aftm_args = <<>> /\ aftm_ret = <<>>
    /\ loads = <<>>
    /\ redisIdle
    /\ schemeIdle
    /\ driverIdle

\* [s for s in switches if s.current_load >= self.load_threshold]
SwitchesOver(comp, thr) ==
    { k \in DOMAIN comp : RLe(Float(thr), comp[k].current_load) }

\* degrees = {s.id: len(neighbors_map[s.id])}
CtlDegrees(conn) == [k \in DOMAIN conn |-> Len(conn[k])]

\* the sources of one iteration: the top_k eligible switches, by highest load
\* or by lowest reliability
CtlSources(comp, conn, topk, strategy) ==
    LET eligible == SelectSeq(CtlIds, LAMBDA k : Len(conn[k]) > 0)
        sorted   == IF strategy = "DYNAMIC_THRESHOLD_LOAD_SENSITIVE"
                    THEN Sorted(eligible, [k \in DOMAIN comp |-> comp[k].current_load],
                                TRUE)
                    ELSE Sorted(eligible, [k \in DOMAIN comp |-> RNeg(comp[k].exponent)],
                                FALSE)
    IN  Prefix(sorted, Min(topk, Len(eligible)))

\* the switches after loads_after is applied to them
CtlApplied(comp, loads_after) ==
    [k \in DOMAIN comp |->
        IF k \in DOMAIN loads_after
        THEN [current_load |-> loads_after[k], exponent |-> CtlExponent(k, loads_after[k])]
        ELSE comp[k]]

\* the while loop: [components, early], early telling that the loop returned
\* from its success branch
RECURSIVE CtlLoop(_, _, _, _, _, _)
CtlLoop(iteration, comp, conn, thr, topk, strategy) ==
    IF ~(iteration < max_iterations) THEN [components |-> comp, early |-> FALSE]
    ELSE IF SwitchesOver(comp, thr) = {} THEN [components |-> comp, early |-> TRUE]
    ELSE LET srcs == CtlSources(comp, conn, topk, strategy)
         IN  IF srcs = <<>> THEN [components |-> comp, early |-> FALSE]
             ELSE CtlLoop(iteration + 1,
                          CtlApplied(comp,
                              proportional_redistribute_sources_full(
                                  [k \in DOMAIN comp |-> comp[k].current_load],
                                  CtlDegrees(conn), srcs, <<conn>>, 1)),
                          conn, thr, topk, strategy)

\* self.load_threshold = max(self.dynamic_threshold_minimum,
\*                           self.load_threshold - self.dynamic_threshold_reduction)
ReducedThreshold(thr, red) == Max(dynamic_threshold_minimum, thr - red)

\* apply_dynamic_threshold_*_redistribution on the switches comp:
\* the switches, the threshold and the pause flag it leaves, the number of
\* assignments it made to load_threshold, and whether it ended with every
\* switch below the threshold it began with
DynamicRedistribution(comp, conn, thr, red, topk, strategy, paused) ==
    IF SwitchesOver(comp, thr) = {}
    THEN [components |-> comp, load_threshold |-> thr, simulation_paused |-> paused,
          assigned |-> 0, below |-> TRUE]
    ELSE IF \A k \in DOMAIN conn : CtlDegrees(conn)[k] = 0
    THEN [components |-> comp, load_threshold |-> thr, simulation_paused |-> TRUE,
          assigned |-> 0, below |-> FALSE]
    ELSE LET r == CtlLoop(0, comp, conn, thr, topk, strategy)
         IN  IF r.early \/ SwitchesOver(r.components, thr) = {}
             THEN [components |-> r.components,
                   load_threshold |-> ReducedThreshold(thr, red),
                   simulation_paused |-> paused, assigned |-> 1, below |-> TRUE]
             ELSE [components |-> r.components, load_threshold |-> thr,
                   simulation_paused |-> TRUE, assigned |-> 0, below |-> FALSE]

\* run_simulation_step when not paused: the reliabilities are recomputed from
\* the loads of the step before, the request load grows, and the policy runs
RunStep(strategy) ==
    /\ pc = "idle" /\ ctl_step # <<>> /\ ctl_step.n < MaxCtlTicks
    /\ ~simulation_paused
    /\ \E g \in CtlGrowths :
        LET grown == [k \in DOMAIN components |->
                         [current_load |-> RAdd(components[k].current_load, g[k]),
                          exponent |-> CtlExponent(k, components[k].current_load)]]
            r == DynamicRedistribution(grown, connections, load_threshold,
                                       dynamic_threshold_reduction, ctl_top_k, strategy,
                                       simulation_paused)
        IN  /\ components' = r.components
            /\ load_threshold' = r.load_threshold
            /\ simulation_paused' = r.simulation_paused
            /\ ctl_step' = [n |-> ctl_step.n + 1, assigned |-> r.assigned,
                            below |-> r.below]
    /\ UNCHANGED <<connections, dynamic_threshold_reduction, ctl_top_k,
                   load_distribution_strategy>>
    /\ UNCHANGED <<loads, redisVars, schemeVars, driverVars, evalVars, topoVars, mainVars>>

\* elif self.load_distribution_strategy == ...DYNAMIC_THRESHOLD_LOAD_SENSITIVE
StepLoadSensitive ==
    /\ load_distribution_strategy = "DYNAMIC_THRESHOLD_LOAD_SENSITIVE"
    /\ RunStep("DYNAMIC_THRESHOLD_LOAD_SENSITIVE")

\* elif self.load_distribution_strategy == ...DYNAMIC_THRESHOLD_RELIABILITY_SENSITIVE
StepReliabilitySensitive ==
    /\ load_distribution_strategy = "DYNAMIC_THRESHOLD_RELIABILITY_SENSITIVE"
    /\ RunStep("DYNAMIC_THRESHOLD_RELIABILITY_SENSITIVE")

\* the pause button: self.simulation_paused = not self.simulation_paused
TogglePause ==
    /\ pc = "idle" /\ ctl_step # <<>> /\ ctl_step.n < MaxCtlTicks
    /\ simulation_paused' = ~simulation_paused
    /\ UNCHANGED <<components, connections, load_threshold, dynamic_threshold_reduction,
                   ctl_top_k, load_distribution_strategy, ctl_step>>
    /\ UNCHANGED <<loads, redisVars, schemeVars, driverVars, evalVars, topoVars, mainVars>>

NextCtl == StepLoadSensitive \/ StepReliabilitySensitive \/ TogglePause

SpecCtl == InitCtl /\ [][NextCtl]_vars

\* C25 as stated: one step assigns load_threshold at most once, only when it
\* ends with every switch below the threshold, the new value being
\* max(dynamic_threshold_minimum, old - dynamic_threshold_reduction); so no step
\* raises the threshold, and a changed threshold is not below the minimum.
C25_ControllerDecay ==
    [][ ctl_step'.n # ctl_step.n =>
            /\ ctl_step'.assigned <= 1
            /\ ctl_step'.assigned = 1 =>
                  /\ ctl_step'.below
                  /\ load_threshold' = Max(dynamic_threshold_minimum,
                                           load_threshold - dynamic_threshold_reduction)
            /\ ctl_step'.assigned = 0 => load_threshold' = load_threshold
            /\ load_threshold' <= load_threshold
            /\ load_threshold' # load_threshold =>
                  load_threshold' >= dynamic_threshold_minimum ]_vars

(***************************************************************************)
(* reliability_bdd.py: system_reliability                                  *)
(***************************************************************************)
\* keys = ["Sw1", ..., "Sw5", "Sr1", "Sr2", "Sa1", "Sa2"]
keys == <<"Sw1", "Sw2", "Sw3", "Sw4", "Sw5", "Sr1", "Sr2", "Sa1", "Sa2">>

RMin(a, b) == IF RLe(a, b) THEN a ELSE b

\* the last mask of range(0, 1 << n); bit i of a mask set means component i is down
LastMaskShort == Pow(2, Len(keys)) - 2

LastMask == Pow(2, Len(keys)) - 1

\* (mask >> i) & 1, for the 0-based position i
Bit(mask, i) == (mask \div Pow(2, i)) % 2

\* state_down of one mask
StateDown(mask) ==
    [k \in Range(keys) |->
        LET i == CHOOSE j \in DOMAIN keys : keys[j] = k IN Bit(mask, i - 1) = 1]

\* prob of one mask after the inner loop: prob *= p_down[comp] or p_up[comp]
\* for the components from position i on (each product is bound to its value
\* p before the loop goes on)
RECURSIVE MaskProb(_, _, _, _)
MaskProb(mask, rel, i, prob) ==
    IF i > Len(keys) THEN prob
    ELSE LET factor == IF Bit(mask, i - 1) = 1 THEN RSub(<<1, 1>>, rel[keys[i]])
                       ELSE rel[keys[i]]
         IN  CHOOSE last \in { MaskProb(mask, rel, i + 1, p) :
                                  p \in {RMul(prob, factor)} } : TRUE

\* the derived events of one state_down, as the loop body evaluates them
Server_Failure(down) ==
    LET Sr1_down == down["Sr1"] \/ (down["Sw5"] /\ down["Sw4"])
        Sr2_down == down["Sr2"] \/ (down["Sw3"] /\ down["Sw5"])
    IN  Sr1_down /\ Sr2_down

Storage_Failure(down) ==
    LET Sa1_down == down["Sa1"] \/ (down["Sw5"] /\ down["Sw2"])
        Sa2_down == down["Sa2"] \/ (down["Sw3"] /\ down["Sw2"])
    IN  Sa1_down /\ Sa2_down

Path_FailureEitherGroup(down) ==
    (down["Sw1"] /\ down["Sw2"] /\ down["Sw3"])
    \/ (down["Sw3"] /\ down["Sw4"] /\ down["Sw5"])

Path_Failure(down) ==
    (down["Sw1"] /\ down["Sw2"] /\ down["Sw3"])
    /\ (down["Sw3"] /\ down["Sw4"] /\ down["Sw5"])

\* SAN_Failure of one state_down
SAN_Failure(down) ==
    Server_Failure(down) \/ Storage_Failure(down) \/ Path_Failure(down)

\* what one mask adds to P_failure: prob, if prob # 0 and SAN_Failure holds
MaskTerm(rel, mask) ==
    LET prob == MaskProb(mask, rel, 1, <<1, 1>>)
    IN  IF prob = Zero THEN Zero
        ELSE IF SAN_Failure(StateDown(mask)) THEN prob
        ELSE Zero

\* the sum of the terms of the masks lo..hi, summed by halves; the two half
\* sums are bound to their values x and y before they are added
RECURSIVE SumMasks(_, _, _)
SumMasks(rel, lo, hi) ==
    IF lo > hi THEN Zero
    ELSE IF lo = hi THEN MaskTerm(rel, lo)
    ELSE LET mid == (lo + hi) \div 2
         IN  CHOOSE sum \in { RAdd(x, y) : x \in {SumMasks(rel, lo, mid)},
                                           y \in {SumMasks(rel, mid + 1, hi)} } : TRUE

\* P_failure after the loop over range(0, 1 << n)
P_failure(rel) == SumMasks(rel, 0, LastMask)

\* the keys absent from the argument, in the order the key check meets them
MissingKeys(rel) == SelectSeq(keys, LAMBDA k : k \notin DOMAIN rel)

\* the outcome of system_reliability(rel): the KeyError of the first absent key,
\* or the returned R_sys = max(0.0, min(1.0, 1.0 - P_failure))
system_reliability_defaulting(rel) ==
    LET filled == [k \in Range(keys) |-> Get(rel, k, <<1, 1>>)]
    IN  CHOOSE outcome \in
            { [raised |-> "", key |-> "",
               value |-> <<RMax(Zero, RMin(<<1, 1>>, RSub(<<1, 1>>, P)))>>] :
              P \in {P_failure(filled)} } : TRUE

system_reliability(rel) ==
    IF MissingKeys(rel) # <<>>
    THEN [raised |-> "KeyError", key |-> MissingKeys(rel)[1], value |-> <<>>]
    ELSE CHOOSE outcome \in
             { [raised |-> "", key |-> "",
                value |-> <<RMax(Zero, RMin(<<1, 1>>, RSub(<<1, 1>>, P)))>>] :
               P \in {P_failure(rel)} } : TRUE

\* Arguments of one system_reliability call: every map of the nine components
\* to 0.0 or 1.0; maps with one or all components at 0.5; maps that lack one
\* key, or every key, or carry one more key.
HalfMaps ==
    { [k \in Range(keys) |-> IF k \in H THEN Rat(1, 2) ELSE <<1, 1>>] :
        H \in { {keys[i]} : i \in DOMAIN keys } \cup { Range(keys) } }

PartialMaps ==
    { [k \in D |-> v] :
        D \in { Range(keys) \ {keys[i]} : i \in DOMAIN keys }
                 \cup { {}, Range(keys) \ {"Sw1", "Sa2"}, Range(keys) \cup {"Sw9"} },
        v \in { Zero, Rat(1, 2), <<1, 1>> } }

ReliabilityMaps ==
    [Range(keys) -> { Zero, <<1, 1>> }] \cup HalfMaps \cup PartialMaps

InitReli ==
    /\ switch_reliabilities \in ReliabilityMaps
    /\ R_sys = <<>>
    /\ aftm_args = <<>> /\ aftm_ret = <<>>
    /\ loads = <<>>
    /\ redisIdle
    /\ schemeIdle
    /\ driverIdle
    /\ objIdle

\* R_sys = system_reliability(switch_reliabilities)
CallSystemReliability ==
    /\ pc = "idle" /\ R_sys = <<>>
    /\ R_sys' = <<system_reliability(switch_reliabilities)>>
    /\ UNCHANGED <<loads, redisVars, schemeVars, driverVars, objVars, switch_reliabilities,
                   aftm_args, aftm_ret>>

NextReli == CallSystemReliability

SpecReli == InitReli /\ [][NextReli]_vars

\* every expected component is present with reliability 0.0 or 1.0
ZeroOneInput ==
    \A i \in DOMAIN keys :
        /\ keys[i] \in DOMAIN switch_reliabilities
        /\ switch_reliabilities[keys[i]] \in { Zero, <<1, 1>> }

\* the up/down state a 0/1 input stands for: a component is down iff its
\* reliability is 0
InputDown == [k \in Range(keys) |-> switch_reliabilities[k] = Zero]

\* C12: on an input whose reliabilities are all 0 or 1 the evaluator returns 0
\* when the failure predicate holds of the corresponding up/down state and 1
\* otherwise; all ones give 1 and all zeros give 0.
C12_BoundaryCases ==
    R_sys # <<>> /\ ZeroOneInput =>
        /\ R_sys[1].raised = ""
        /\ R_sys[1].value = << IF SAN_Failure(InputDown) THEN Zero ELSE <<1, 1>> >>
        /\ (\A k \in Range(keys) : ~InputDown[k]) => R_sys[1].value = << <<1, 1>> >>
        /\ (\A k \in Range(keys) : InputDown[k]) => R_sys[1].value = << Zero >>

\* the evaluator returned 0 for the input with every component down
C12_Witness ==
    /\ R_sys # <<>> /\ ZeroOneInput
    /\ \A k \in Range(keys) : InputDown[k]
    /\ R_sys[1].value = << Zero >>

\* C13 as stated: in every basic-event state where Sw1, Sw2 and Sw3 are down,
\* and in every state where Sw3, Sw4 and Sw5 are down, the failure predicate the
\* evaluator computes is true whatever the other components are; the evaluator
\* then returns 0 on the 0/1 input that stands for that state.
C13_PathFailure ==
    (/\ R_sys # <<>> /\ ZeroOneInput
     /\ \/ InputDown["Sw1"] /\ InputDown["Sw2"] /\ InputDown["Sw3"]
        \/ InputDown["Sw3"] /\ InputDown["Sw4"] /\ InputDown["Sw5"])
    => /\ SAN_Failure(InputDown)
       /\ R_sys[1].value = << Zero >>

\* the failure probability summed over the masks lo..hi whose state has
\* Server_Failure or Storage_Failure
RECURSIVE C28_SumMasks(_, _, _)
C28_SumMasks(rel, lo, hi) ==
    IF lo > hi THEN Zero
    ELSE IF lo = hi
         THEN IF Server_Failure(StateDown(lo)) \/ Storage_Failure(StateDown(lo))
              THEN MaskProb(lo, rel, 1, <<1, 1>>)
              ELSE Zero
    ELSE LET mid == (lo + hi) \div 2
         IN  CHOOSE sum \in { RAdd(x, y) : x \in {C28_SumMasks(rel, lo, mid)},
                                           y \in {C28_SumMasks(rel, mid + 1, hi)} } : TRUE

MaxTime  == 2     \* t ranges over -1..MaxTime
MaxAlpha == 2     \* alpha ranges over -1..MaxAlpha (whole exponents)

\* arguments of one call: loads and base rates include 0
AftmLoads == { Zero, Rat(1, 2), <<1, 1>>, <<2, 1>> }
AftmRates == { Zero, Rat(1, 2), <<3, 1>> }

InitAftm ==
    /\ aftm_args \in [t : -1..MaxTime, L : AftmLoads, base_lambda : AftmRates,
                      alpha : -1..MaxAlpha]
    /\ aftm_ret = <<>>
    /\ switch_reliabilities = <<>> /\ R_sys = <<>>
    /\ loads = <<>>
    /\ redisIdle
    /\ schemeIdle
    /\ driverIdle
    /\ objIdle

\* aftm_ret = reliability_R(t, L, base_lambda, alpha)
CallReliabilityR ==
    /\ pc = "idle" /\ aftm_args # <<>> /\ aftm_ret = <<>>
    /\ aftm_ret' = <<reliability_R(aftm_args.t, aftm_args.L, aftm_args.base_lambda,
                                   aftm_args.alpha)>>
    /\ UNCHANGED <<loads, redisVars, schemeVars, driverVars, objVars, switch_reliabilities,
                   R_sys, aftm_args>>

NextAftm == CallReliabilityR

SpecAftm == InitAftm /\ [][NextAftm]_vars

\* C15 as stated: a call with t < 0 fails with ValueError, for every load, base
\* failure rate and exponent alpha, and returns no reliability.
C15_NegativeTime ==
    aftm_ret # <<>> /\ aftm_args.t < 0 =>
        /\ aftm_ret[1].raised = "ValueError"
        /\ aftm_ret[1].exponent = <<>>

\* C16 as stated: for load 0, every t >= 0, every base failure rate and every
\* exponent alpha (alpha = 0 included) the failure rate is 0 and the returned
\* reliability is 1.
C16_ZeroLoad ==
    aftm_ret # <<>> /\ aftm_args.L = Zero /\ aftm_args.t >= 0 =>
        /\ aftm_ret[1].raised = ""
        /\ aftm_ret[1].lam = << Zero >>
        /\ aftm_ret[1].exponent = << Zero >>

====
